---- MODULE Spec2Model ----
(***************************************************************************)
(* The GBIF query runners: clickhouse_query (code/clickhouse_gbif.py) and  *)
(* read_gbif_from_s3, get_top_countries_by_species, query_gbif_with_filter *)
(* (code/duck_gbif.py).  One call runs at a time; a call is a sequence of  *)
(* steps (connect, execute statements, convert, handler, finally), each    *)
(* step of the engine or of the external process ending in one of the      *)
(* outcomes the library can produce.  Query texts are real strings, built  *)
(* by concatenation as the f-strings build them.                           *)
(***************************************************************************)
EXTENDS Integers, Sequences, FiniteSets, TLC

VARIABLES
    pc,       \* position in the running call: "idle", a step name, or "done"
    fn,       \* the function being called
    req,      \* the query parameters of the call
    conn,     \* the call's engine session: "none", "open" or "closed"
    nOpen,    \* number of engine sessions currently open in the process
    calls,    \* number of calls started so far
    query,    \* the generated query text ("" until it is built)
    events,   \* what the call did, in order: statements, prints, open, close
    pending,  \* the return or raise the try block left for the finally clause
    ret,      \* how the call ended: returned a value, or raised
    fault,    \* the failure injected into this call, if any
    proc      \* the external process result: returncode, stdout, stderr

vars == <<pc, fn, req, conn, nOpen, calls, query, events, pending, ret, fault, proc>>

\* ---------------------------------------------------------------- bounds
MaxCalls == 2
MaxRows == 2

\* ---------------------------------------------------------------- Python values
None == [t |-> "none"]
PyStr(s) == [t |-> "str", v |-> s]
PyInt(n) == [t |-> "int", v |-> n]

\* Truth value of `if x:`.
\* (the same test written `if x is not None:`)
TruthyIsNotNone(x) == x.t # "none"
Truthy(x) ==
    CASE x.t = "none" -> FALSE
      [] x.t = "str"  -> x.v # ""
      [] x.t = "int"  -> x.v # 0

\* Text an f-string puts in place of {x}.
Format(x) ==
    CASE x.t = "none" -> "None"
      [] x.t = "str"  -> x.v
      [] x.t = "int"  -> ToString(x.v)

\* ---------------------------------------------------------------- text helpers
Occurrences(s, t) ==
    {i \in 1..(Len(s) - Len(t) + 1) : SubSeq(s, i, i + Len(t) - 1) = t}
Contains(s, t) == Occurrences(s, t) # {}
Count(s, t) == Cardinality(Occurrences(s, t))
EndsWith(s, t) ==
    /\ Len(t) <= Len(s)
    /\ SubSeq(s, Len(s) - Len(t) + 1, Len(s)) = t
StartsWith(s, t) == Len(t) <= Len(s) /\ SubSeq(s, 1, Len(t)) = t
FirstIndex(s, t) ==
    IF Contains(s, t)
        THEN CHOOSE i \in Occurrences(s, t) : \A j \in Occurrences(s, t) : i <= j
        ELSE 0

\* ---------------------------------------------------------------- inputs
CLICKHOUSE == "clickhouse_query"
READ == "read_gbif_from_s3"
TOP == "get_top_countries_by_species"
FILTER == "query_gbif_with_filter"
Embedded == {READ, TOP, FILTER}

\* The query the script submits when it is run.
ModuleQuery ==
    "\nSELECT countrycode, countDistinct(specieskey) AS distinct_species_count \n"
    \o "FROM s3('https://gbif-open-data-eu-central-1.s3.eu-central-1.amazonaws.com/occurrence/2025-11-01/occurrence.parquet/*', Parquet) \n"
    \o "GROUP BY countrycode \nORDER BY distinct_species_count DESC \nLIMIT 10\n"

Queries == {ModuleQuery, "SELEC 1", ""}
Dates == {"2025-10-01", "", "2023'06"}
Regions == {"eu-central-1", "us-east-1", "mars'1"}
CountryCodes == {None, PyStr("US"), PyStr(""), PyStr("U'S")}
SpeciesNames == {None, PyStr("Puma"), PyStr("")}
Limits == {None, PyInt(0), PyInt(-1), PyInt(5), PyInt(10)}

\* Outcome of one engine call: it returns, it raises an Exception subclass
\* (duckdb.Error, IOError, ...), or the call is cut short by a BaseException
\* that is no Exception (KeyboardInterrupt).
Outcomes == {"ok", "error", "interrupt"}

ExitCodes == {0, 1, 2}
GoodCsv == "countrycode,distinct_species_count\nUS,5\nGB,3\n"
RaggedCsv == "a\n1,2\n3,4,5\n"
Stdouts == {GoodCsv, RaggedCsv, ""}
Stderrs == {"", "Code: 62. DB::Exception: Syntax error"}

NoFault == [at |-> "", kind |-> "ok", msg |-> ""]
NoProc == [started |-> FALSE, cmd |-> <<>>, returncode |-> 0, stdout |-> "", stderr |-> ""]
Return(v) == [kind |-> "return", val |-> v]
Raised == [kind |-> "raise", val |-> None]
NoReturn == [kind |-> "", val |-> None]
Table(src, n) == [t |-> "table", of |-> src, rows |-> n]
Ev(e, txt) == [ev |-> e, text |-> txt]
Printed(txt) == Ev("print", txt)

\* ---------------------------------------------------------------- query construction
\* s3_path of each function; read_gbif_from_s3 takes no region parameter and
\* names the us-east-1 bucket itself.
s3_path_misspelt(f, r) ==
    IF f = READ
        THEN "s3://gbif-open-data-us-east-1/occurence/" \o r.snapshot_date
                 \o "/occurrence.parquet/*"
        ELSE "s3://gbif-open-data-" \o r.region \o "/occurence/" \o r.snapshot_date
                 \o "/occurrence.parquet/*"
s3_path(f, r) ==
    IF f = READ
        THEN "s3://gbif-open-data-us-east-1/occurrence/" \o r.snapshot_date
                 \o "/occurrence.parquet/*"
        ELSE "s3://gbif-open-data-" \o r.region \o "/occurrence/" \o r.snapshot_date
                 \o "/occurrence.parquet/*"

\* The region statement each function sends before its query.
region_stmt(f, r) ==
    IF f = READ
        THEN "SET s3_region='us-east-1';"
        ELSE "SET s3_region='" \o r.region \o "';"

limit_clause(lim) == IF Truthy(lim) THEN " LIMIT " \o Format(lim) ELSE ""
country_clause(cc) ==
    IF Truthy(cc) THEN " AND countrycode = '" \o Format(cc) \o "'" ELSE ""
species_clause(sp) ==
    IF Truthy(sp) THEN " AND species LIKE '%" \o Format(sp) \o "%'" ELSE ""

read_query(r) ==
    "SELECT * FROM read_parquet('" \o s3_path(READ, r) \o "')"
        \o limit_clause(r.limit)

top_query(r) ==
    "\n        SELECT \n            countrycode, \n"
        \o "            COUNT(DISTINCT specieskey) AS distinct_species_count \n"
        \o "        FROM read_parquet('" \o s3_path(TOP, r) \o "')\n"
        \o "        WHERE countrycode IS NOT NULL\n"
        \o "        GROUP BY countrycode \n"
        \o "        ORDER BY distinct_species_count DESC \n"
        \o "        LIMIT " \o Format(r.limit) \o "\n        "

filter_query(r) ==
    "SELECT * FROM read_parquet('" \o s3_path(FILTER, r) \o "') WHERE 1=1"
        \o country_clause(r.country_code)
        \o species_clause(r.species)
        \o limit_clause(r.limit)

BuildQuery(f, r) ==
    CASE f = READ   -> read_query(r)
      [] f = TOP    -> top_query(r)
      [] f = FILTER -> filter_query(r)

\* ---------------------------------------------------------------- console output
\* What each function prints before it submits its query.
BeforeQuery(f, r) ==
    IF f = TOP
        THEN <<Printed("Querying GBIF data from " \o r.region \o "...")>>
        ELSE <<>>

\* What each function prints once the result is a table of n rows.
AfterResult(f, r, n) ==
    CASE f = READ   -> <<Printed("Successfully read " \o ToString(n) \o " rows from GBIF")>>
      [] f = TOP    -> <<Printed("\nTop " \o Format(r.limit)
                                  \o " countries by distinct species count:")>>
      [] f = FILTER -> <<Printed("Query returned " \o ToString(n) \o " rows")>>

TipsHeader == "\nTroubleshooting tips:"

\* The except clause of each function: the diagnostic, then the hints.
ExceptPrintsDiagnosticOnly(f, r, e) ==
    CASE f = READ   -> << Printed("Error reading from S3: " \o e) >>
      [] f = TOP    -> << Printed("Error querying S3: " \o e) >>
      [] f = FILTER -> << Printed("Error: " \o e) >>
ExceptPrints(f, r, e) ==
    CASE f = READ ->
            << Printed("Error reading from S3: " \o e),
               Printed(TipsHeader),
               Printed("1. Ensure the snapshot date exists (e.g., '2023-06-01', '2024-01-01')"),
               Printed("2. Check your internet connection"),
               Printed("3. Verify the S3 path is correct") >>
      [] f = TOP ->
            << Printed("Error querying S3: " \o e),
               Printed(TipsHeader),
               Printed("1. Verify snapshot date '" \o r.snapshot_date \o "' exists"),
               Printed("2. Check region '" \o r.region
                           \o "' is correct (us-east-1 or eu-central-1)"),
               Printed("3. Ensure internet connection is stable") >>
      [] f = FILTER ->
            << Printed("Error: " \o e) >>

\* ---------------------------------------------------------------- pandas.read_csv
\* pd.read_csv raises EmptyDataError on empty text and ParserError on rows
\* longer than the rows before them; otherwise the header line names the
\* columns and every further line is a row.
CsvParses(text) == text # "" /\ text # RaggedCsv
CsvRows(text) == Count(text, "\n") - 1

Init ==
    /\ pc = "idle"
    /\ fn = ""
    /\ req = [snapshot_date |-> "", region |-> "", country_code |-> None,
              species |-> None, limit |-> None]
    /\ conn = "none"
    /\ nOpen = 0
    /\ calls = 0
    /\ query = ""
    /\ events = <<>>
    /\ pending = NoReturn
    /\ ret = NoReturn
    /\ fault = NoFault
    /\ proc = NoProc

\* ---------------------------------------------------------------- calls
Fresh(f, r, q) ==
    /\ pc \in {"idle", "done"}
    /\ calls < MaxCalls
    /\ calls' = calls + 1
    /\ fn' = f
    /\ req' = r
    /\ conn' = "none"
    /\ query' = q
    /\ events' = <<>>
    /\ pending' = NoReturn
    /\ ret' = NoReturn
    /\ fault' = NoFault
    /\ proc' = NoProc
    /\ UNCHANGED nOpen

\* clickhouse_query(query)
CallClickhouse ==
    \E q \in Queries :
        /\ Fresh(CLICKHOUSE, [snapshot_date |-> "", region |-> "", country_code |-> None,
                              species |-> None, limit |-> None], q)
        /\ pc' = "run"

\* read_gbif_from_s3(snapshot_date, limit); the region of the request is not
\* a parameter of this function.
CallRead ==
    \E d \in Dates, g \in Regions, l \in Limits :
        /\ Fresh(READ, [snapshot_date |-> d, region |-> g, country_code |-> None,
                        species |-> None, limit |-> l], "")
        /\ pc' = "connect"

\* get_top_countries_by_species(snapshot_date, region, limit)
CallTop ==
    \E d \in Dates, g \in Regions, l \in Limits :
        /\ Fresh(TOP, [snapshot_date |-> d, region |-> g, country_code |-> None,
                       species |-> None, limit |-> l], "")
        /\ pc' = "connect"

\* query_gbif_with_filter(snapshot_date, region, country_code, species, limit)
CallFilter ==
    \E d \in Dates, g \in Regions, c \in CountryCodes, sp \in SpeciesNames, l \in Limits :
        /\ Fresh(FILTER, [snapshot_date |-> d, region |-> g, country_code |-> c,
                          species |-> sp, limit |-> l], "")
        /\ pc' = "connect"

\* ---------------------------------------------------------------- embedded backend
\* `except Exception as e`: the handler takes Exception subclasses only.
\* (a bare `except:` would take the interrupt as well)
CaughtBare(kind) == kind \in {"error", "interrupt"}
Caught(kind) == kind = "error"

Failure(step, kind) == [at |-> step, kind |-> kind, msg |-> step \o " failed"]

\* A step inside the try block raised: to the handler when the handler takes
\* it, else straight to the finally clause with the exception still in flight.
\* (a retry loop would go back to the step that failed)
RaiseRetries(step, kind) ==
    /\ fault' = Failure(step, kind)
    /\ pc' = step
    /\ pending' = pending
Raise(step, kind) ==
    /\ fault' = Failure(step, kind)
    /\ IF Caught(kind)
           THEN pc' = "except" /\ pending' = pending
           ELSE pc' = "finally" /\ pending' = Raised

\* conn = duckdb.connect(), before the try block.
Connect ==
    /\ pc = "connect"
    /\ \E o \in Outcomes :
           IF o = "ok"
               THEN /\ conn' = "open"
                    /\ nOpen' = nOpen + 1
                    /\ events' = Append(events, Ev("open", ""))
                    /\ pc' = "install"
                    /\ UNCHANGED <<fault, ret>>
               ELSE /\ fault' = Failure("connect", o)
                    /\ ret' = Raised
                    /\ pc' = "done"
                    /\ UNCHANGED <<conn, nOpen, events>>
    /\ UNCHANGED <<fn, req, calls, query, pending, proc>>

\* conn.execute(sql)
Execute(step, sql, next) ==
    /\ pc = step
    /\ events' = Append(events, Ev("execute", sql))
    /\ \E o \in Outcomes :
           IF o = "ok"
               THEN pc' = next /\ UNCHANGED <<fault, pending>>
               ELSE Raise(step, o)
    /\ UNCHANGED <<fn, req, conn, nOpen, calls, query, ret, proc>>

Install == Execute("install", "INSTALL httpfs;", "load")
Load == Execute("load", "LOAD httpfs;", "region")
SetRegion == Execute("region", region_stmt(fn, req), "build")

\* s3_path = ...; query = ...; the prints before the query.
Build ==
    /\ pc = "build"
    /\ query' = BuildQuery(fn, req)
    /\ events' = events \o BeforeQuery(fn, req)
    /\ pc' = "execute"
    /\ UNCHANGED <<fn, req, conn, nOpen, calls, pending, ret, fault, proc>>

RunQuery == Execute("execute", query, "df")

\* .df(), the print after it, and `return result`.
ToDf ==
    /\ pc = "df"
    /\ \E o \in Outcomes :
           IF o = "ok"
               THEN \E n \in 0..MaxRows :
                        /\ events' = Append(events, Ev("df", "")) \o AfterResult(fn, req, n)
                        /\ pending' = Return(Table(query, n))
                        /\ pc' = "finally"
                        /\ UNCHANGED fault
               ELSE /\ events' = Append(events, Ev("df", ""))
                    /\ Raise("df", o)
    /\ UNCHANGED <<fn, req, conn, nOpen, calls, query, ret, proc>>

\* The except clause: prints, then `return None`.
Except ==
    /\ pc = "except"
    /\ events' = events \o ExceptPrints(fn, req, fault.msg)
    /\ pending' = Return(None)
    /\ pc' = "finally"
    /\ UNCHANGED <<fn, req, conn, nOpen, calls, query, ret, fault, proc>>

\* The finally clause: conn.close(); then the pending return or raise happens.
\* conn.close() itself is taken to succeed.
\* (without the finally clause nothing closes the session)
FinallySkipsClose ==
    /\ pc = "finally"
    /\ ret' = pending
    /\ pc' = "done"
    /\ UNCHANGED <<fn, req, conn, nOpen, calls, query, events, pending, fault, proc>>
Finally ==
    /\ pc = "finally"
    /\ conn' = "closed"
    /\ nOpen' = nOpen - 1
    /\ events' = Append(events, Ev("close", ""))
    /\ ret' = pending
    /\ pc' = "done"
    /\ UNCHANGED <<fn, req, calls, query, pending, fault, proc>>

\* ---------------------------------------------------------------- subprocess backend
Cmd(q) == <<"./clickhouse", "local", "-q", q, "--format", "CSVWithNames">>

\* result = subprocess.run(cmd, capture_output=True, text=True): the process
\* is started and waited for, or starting it raises OSError.
\* An interrupt of the waiting parent is outside the model.
ChRun ==
    /\ pc = "run"
    /\ \/ /\ fault' = Failure("spawn", "error")
          /\ events' = Append(events, Ev("run", query))
          /\ ret' = Raised
          /\ pc' = "done"
          /\ UNCHANGED proc
       \/ \E rc \in ExitCodes, out \in Stdouts, err \in Stderrs :
              /\ proc' = [started |-> TRUE, cmd |-> Cmd(query), returncode |-> rc,
                          stdout |-> out, stderr |-> err]
              /\ events' = events \o <<Ev("run", query), Ev("spawn", query), Ev("wait", "")>>
              /\ pc' = "check"
              /\ UNCHANGED <<fault, ret>>
    /\ UNCHANGED <<fn, req, conn, nOpen, calls, query, pending>>

\* `if result.returncode == 0:` (and the same code with the test left out)
SucceededUnchecked(rc) == TRUE
Succeeded(rc) == rc = 0

\* if result.returncode == 0: read_csv, return df; else: print, return None.
\* (with read_csv wrapped in a handler, a parse failure would return None)
ChHandleCatchesParse ==
    /\ pc = "check"
    /\ IF Succeeded(proc.returncode)
           THEN /\ events' = Append(events, Ev("read_csv", proc.stdout))
                /\ IF CsvParses(proc.stdout)
                       THEN /\ ret' = Return(Table(proc.stdout, CsvRows(proc.stdout)))
                            /\ UNCHANGED fault
                       ELSE /\ ret' = Return(None)
                            /\ fault' = Failure("read_csv", "error")
           ELSE /\ events' = Append(events, Printed("Error: " \o proc.stderr))
                /\ ret' = Return(None)
                /\ UNCHANGED fault
    /\ pc' = "done"
    /\ UNCHANGED <<fn, req, conn, nOpen, calls, query, pending, proc>>
ChHandle ==
    /\ pc = "check"
    /\ IF Succeeded(proc.returncode)
           THEN /\ events' = Append(events, Ev("read_csv", proc.stdout))
                /\ IF CsvParses(proc.stdout)
                       THEN /\ ret' = Return(Table(proc.stdout, CsvRows(proc.stdout)))
                            /\ UNCHANGED fault
                       ELSE /\ ret' = Raised
                            /\ fault' = Failure("read_csv", "error")
           ELSE /\ events' = Append(events, Printed("Error: " \o proc.stderr))
                /\ ret' = Return(None)
                /\ UNCHANGED fault
    /\ pc' = "done"
    /\ UNCHANGED <<fn, req, conn, nOpen, calls, query, pending, proc>>

\* ---------------------------------------------------------------- specification
Next ==
    \/ CallClickhouse
    \/ CallRead
    \/ CallTop
    \/ CallFilter
    \/ Connect
    \/ Install
    \/ Load
    \/ SetRegion
    \/ Build
    \/ RunQuery
    \/ ToDf
    \/ Except
    \/ Finally
    \/ ChRun
    \/ ChHandle

Spec == Init /\ [][Next]_vars

\* ---------------------------------------------------------------- observations
Done == pc = "done"
Only(kind) == SelectSeq(events, LAMBDA e : e.ev = kind)
Texts(seq) == [i \in 1..Len(seq) |-> seq[i].text]
Prints == Texts(Only("print"))
Statements == Texts(Only("execute"))
IsPrefix(s, t) == Len(s) <= Len(t) /\ \A i \in 1..Len(s) : s[i] = t[i]
ReturnedNone == ret = Return(None)
ReturnedTable == ret.kind = "return" /\ ret.val.t = "table"
SessionWasOpened == Len(Only("open")) > 0

\* ---------------------------------------------------------------- C1
\* C1: when a call of an embedded-backend function has ended, by a return or
\* by an exception reaching the caller, the session it opened is closed, and
\* between calls no session of the process is open.
C1_SessionClosedOnEveryExit ==
    /\ pc \in {"idle", "done"} => nOpen = 0 /\ conn # "open"
    /\ (Done /\ fn \in Embedded /\ SessionWasOpened) =>
           /\ conn = "closed"
           /\ Len(Only("close")) = 1
           /\ events[Len(events)].ev = "close"

\* An interrupted second call has ended by raising, with its session closed.
C1_Witness ==
    /\ Done /\ fn \in Embedded /\ calls = 2
    /\ fault.kind = "interrupt" /\ fault.at = "execute"
    /\ ret = Raised /\ conn = "closed" /\ nOpen = 0

\* ---------------------------------------------------------------- C2
\* C2 as stated: every call, of every entry point, ends by returning a table
\* or None; none ends by raising.
C2_NeverRaises ==
    Done => ret.kind = "return" /\ ret.val.t \in {"table", "none"}

\* The failures that lie outside every handler: the process cannot be
\* started, its output does not parse after exit status 0, the session
\* cannot be opened, or a step is cut short by a non-Exception interrupt.
Unhandled ==
    \/ fault.at \in {"spawn", "read_csv", "connect"}
    \/ fault.kind = "interrupt"

\* C2 (amended): a call ends by returning a table or None, except that it
\* raises to the caller exactly when the failure is one of the unhandled
\* ones; a non-zero exit and an Exception raised by a step after the session
\* is open both end in None.
C2_ReturnsUnlessUnhandled ==
    Done =>
        /\ ret.kind \in {"return", "raise"}
        /\ ret.kind = "raise" <=> Unhandled
        /\ ret.kind = "return" => ret.val.t \in {"table", "none"}
        /\ (fault.kind = "error" /\ ~Unhandled) => ReturnedNone
        /\ (fn = CLICKHOUSE /\ proc.started /\ proc.returncode # 0) => ReturnedNone

\* The external program could not be started and the call raised.
C2_Witness ==
    Done /\ fn = CLICKHOUSE /\ fault.at = "spawn" /\ ret = Raised

\* ---------------------------------------------------------------- C3
PostOpenSteps == {"install", "load", "region", "execute", "df"}
HandledFailure == fn \in Embedded /\ fault.kind = "error" /\ fault.at \in PostOpenSteps

\* The diagnostic line: the function's error prefix followed by the message.
DiagnosticAt(i) ==
    /\ i \in 1..Len(Prints)
    /\ StartsWith(Prints[i], "Error")
    /\ EndsWith(Prints[i], ": " \o fault.msg)

\* The hints: the header line and three numbered lines after it.
HintsAt(i) ==
    /\ i + 3 <= Len(Prints)
    /\ Prints[i] = "\nTroubleshooting tips:"
    /\ StartsWith(Prints[i + 1], "1. ")
    /\ StartsWith(Prints[i + 2], "2. ")
    /\ StartsWith(Prints[i + 3], "3. ")
HintsPrinted == \E i \in 1..Len(Prints) : HintsAt(i)

\* C3 as stated: in every embedded-backend function a failure of a step after
\* the session is opened ends with the diagnostic and the troubleshooting
\* hints printed, None returned and the session closed.
C3_HintsOnEveryFailure ==
    (Done /\ HandledFailure) =>
        /\ \E i \in 1..Len(Prints) : DiagnosticAt(i) /\ HintsAt(i + 1)
        /\ ReturnedNone
        /\ conn = "closed"

\* C3 (amended): such a failure ends with the diagnostic printed, None
\* returned and the session closed; read_gbif_from_s3 and
\* get_top_countries_by_species print the three hints after the diagnostic,
\* query_gbif_with_filter prints the diagnostic alone.
C3_FailureHandled ==
    (Done /\ HandledFailure) =>
        /\ ReturnedNone
        /\ conn = "closed" /\ nOpen = 0
        /\ events[Len(events)].ev = "close"
        /\ DiagnosticAt(Len(Prints) - (IF fn = FILTER THEN 0 ELSE 4))
        /\ fn \in {READ, TOP} => HintsAt(Len(Prints) - 3)
        /\ fn = FILTER => ~HintsPrinted /\ Len(Prints) = 1

\* The filtered scan failed converting its result: one line, None, closed.
C3_Witness ==
    /\ Done /\ fn = FILTER /\ fault = Failure("df", "error")
    /\ ReturnedNone /\ conn = "closed" /\ Len(Prints) = 1

\* ---------------------------------------------------------------- C4
\* C4: a call of clickhouse_query invokes subprocess.run once, so at most one
\* process is started, and it is waited for before anything else is done;
\* exit status 0: standard output is handed to read_csv once and the table
\* read from it is returned; any other exit status: standard error is
\* printed, standard output is not parsed, and None is returned.
C4_ExitStatusDecides ==
    fn = CLICKHOUSE =>
        /\ Len(Only("spawn")) <= 1
        /\ Done => Len(Only("run")) = 1
        /\ (Done /\ proc.started) =>
               /\ Len(Only("spawn")) = 1
               /\ proc.cmd = <<"./clickhouse", "local", "-q", query,
                               "--format", "CSVWithNames">>
               /\ events[2].ev = "spawn" /\ events[3].ev = "wait"
               /\ proc.returncode = 0 =>
                      /\ Texts(Only("read_csv")) = <<proc.stdout>>
                      /\ Prints = <<>>
                      /\ ret.kind = "return" =>
                             /\ ret.val.t = "table"
                             /\ ret.val.of = proc.stdout
                      /\ proc.stdout = GoodCsv => ReturnedTable
               /\ proc.returncode # 0 =>
                      /\ Only("read_csv") = <<>>
                      /\ Prints = <<"Error: " \o proc.stderr>>
                      /\ ReturnedNone

\* Exit status 2 with text on standard output: reported, not parsed.
C4_Witness ==
    /\ Done /\ fn = CLICKHOUSE /\ proc.started /\ proc.returncode = 2
    /\ proc.stdout = GoodCsv /\ proc.stderr # "" /\ ReturnedNone

\* ---------------------------------------------------------------- C5
\* The storage path template of the dataset.
TemplatePath(region, date) ==
    "s3://gbif-open-data-" \o region \o "/occurrence/" \o date \o "/occurrence.parquet/*"
RegionSetting(region) == "SET s3_region='" \o region \o "';"
QueryBuilt == fn \in Embedded /\ pc \in {"execute", "df", "except", "finally", "done"}
                  /\ query # ""

\* The query reads the dataset at `path` and nothing else.
ReadsFrom(path) ==
    /\ Count(query, "read_parquet('") = 1
    /\ Count(query, "read_parquet('" \o path \o "')") = 1

\* C5 as stated: in all three query shapes the path in the query is the
\* template filled with the caller's region and snapshot date, and the region
\* set on the session is the caller's region.
C5_PathFromCallerRegion ==
    QueryBuilt =>
        /\ ReadsFrom(TemplatePath(req.region, req.snapshot_date))
        /\ Statements[3] = RegionSetting(req.region)

\* The region a function addresses: read_gbif_from_s3 has no region parameter
\* and always addresses us-east-1.
RegionAddressed == IF fn = READ THEN "us-east-1" ELSE req.region

\* C5 (amended): the path in the query is the template filled with the
\* caller's snapshot date and, in the aggregate and filtered queries, the
\* caller's region; the unfiltered scan always uses region us-east-1.  In all
\* three the region set on the session is the region in the bucket name.
C5_PathTemplate ==
    QueryBuilt =>
        /\ ReadsFrom(TemplatePath(RegionAddressed, req.snapshot_date))
        /\ Statements[3] = RegionSetting(RegionAddressed)

\* An unfiltered scan asked for eu-central-1 and submitted for us-east-1.
C5_Witness ==
    /\ fn = READ /\ pc = "df" /\ req.region = "eu-central-1"
    /\ req.snapshot_date = "2025-10-01"
    /\ Contains(query, "s3://gbif-open-data-us-east-1/occurrence/2025-10-01/")

\* ---------------------------------------------------------------- C6
\* A filter value that is present and not the empty string.
Given(x) == x # None /\ x # PyStr("")
CountryCondition == " AND countrycode = '" \o Format(req.country_code) \o "'"
SpeciesCondition == " AND species LIKE '%" \o Format(req.species) \o "%'"
NumberGiven == (IF Given(req.country_code) THEN 1 ELSE 0)
                   + (IF Given(req.species) THEN 1 ELSE 0)

\* C6 as stated: the filtered scan has a country-code condition iff
\* country_code is not None and a species condition iff species is not None.
C6_ConditionIffSupplied ==
    (QueryBuilt /\ fn = FILTER) =>
        /\ Contains(query, "countrycode = '") <=> req.country_code # None
        /\ Contains(query, "species LIKE '%") <=> req.species # None

\* C6 (amended): the filtered scan has the country-code equality condition
\* iff country_code is supplied and not empty, and the species substring
\* condition iff species is supplied and not empty; each is introduced by
\* AND after WHERE 1=1, country code before species, both before LIMIT.
C6_FilterConditions ==
    (QueryBuilt /\ fn = FILTER) =>
        /\ Count(query, " WHERE 1=1") = 1
        /\ Count(query, "countrycode") = (IF Given(req.country_code) THEN 1 ELSE 0)
        /\ Count(query, "species") = (IF Given(req.species) THEN 1 ELSE 0)
        /\ Count(query, " AND ") = NumberGiven
        /\ Given(req.country_code) =>
               /\ Count(query, CountryCondition) = 1
               /\ FirstIndex(query, " WHERE 1=1") < FirstIndex(query, CountryCondition)
        /\ Given(req.species) =>
               /\ Count(query, SpeciesCondition) = 1
               /\ FirstIndex(query, " WHERE 1=1") < FirstIndex(query, SpeciesCondition)
        /\ (Given(req.country_code) /\ Given(req.species)) =>
               FirstIndex(query, CountryCondition) < FirstIndex(query, SpeciesCondition)
        /\ Contains(query, " LIMIT ") =>
               /\ Given(req.country_code) =>
                      FirstIndex(query, CountryCondition) < FirstIndex(query, " LIMIT ")
               /\ Given(req.species) =>
                      FirstIndex(query, SpeciesCondition) < FirstIndex(query, " LIMIT ")

\* Both filters and a limit were supplied.
C6_Witness ==
    /\ QueryBuilt /\ fn = FILTER
    /\ req.country_code = PyStr("US") /\ req.species = PyStr("Puma")
    /\ req.limit = PyInt(5)
    /\ EndsWith(query, " WHERE 1=1 AND countrycode = 'US' AND species LIKE '%Puma%' LIMIT 5")

\* ---------------------------------------------------------------- C7
\* C7: in the unfiltered and the filtered scan the query has no LIMIT clause
\* when limit is None and ends with the one clause LIMIT n when limit is the
\* integer n; the aggregate query ends with the one clause LIMIT n.
C7_LimitClause ==
    QueryBuilt =>
        /\ (fn \in {READ, FILTER} /\ req.limit = None) => Count(query, "LIMIT") = 0
        /\ (fn \in {READ, FILTER} /\ req.limit.t = "int") =>
               /\ Count(query, "LIMIT") = 1
               /\ EndsWith(query, " LIMIT " \o ToString(req.limit.v))
        /\ (fn = TOP /\ req.limit.t = "int") =>
               /\ Count(query, "LIMIT") = 1
               /\ EndsWith(query, " LIMIT " \o ToString(req.limit.v) \o "\n        ")

\* ---------------------------------------------------------------- C8
\* The session states a call has passed through, in order.
Phase(e) ==
    CASE e.ev = "open" -> "session-open"
      [] e.ev = "close" -> "session-closed"
      [] e.ev = "execute" /\ e.text = query /\ query # "" -> "query-submitted"
      [] OTHER -> ""
RECURSIVE PhasesOf(_)
PhasesOf(seq) ==
    IF seq = <<>> THEN <<>>
    ELSE IF Phase(Head(seq)) = "" THEN PhasesOf(Tail(seq))
    ELSE <<Phase(Head(seq))>> \o PhasesOf(Tail(seq))
Phases == PhasesOf(events)

\* C8 as stated: every call of an embedded-backend function has passed
\* through session-open, query-submitted, session-closed, each exactly once.
C8_AlwaysAllThreeStates ==
    (Done /\ fn \in Embedded) =>
        Phases = <<"session-open", "query-submitted", "session-closed">>

\* C8 (amended): a call that opened a session passes through session-open and
\* session-closed exactly once each, session-closed being the last thing it
\* does; between them it issues INSTALL, LOAD, SET region and the data query
\* in that order, stopping at the first that fails, so query-submitted occurs
\* once when the three statements before it succeeded and not at all
\* otherwise; a call whose session could not be opened passes through none.
C8_LinearStates ==
    fn \in Embedded =>
        /\ IsPrefix(Statements,
                    <<"INSTALL httpfs;", "LOAD httpfs;", region_stmt(fn, req), query>>)
        /\ IsPrefix(Phases, <<"session-open", "query-submitted", "session-closed">>)
               \/ Phases = <<"session-open", "session-closed">>
        /\ Done =>
               /\ fault.at = "connect" <=> events = <<>>
               /\ fault.at # "connect" =>
                      /\ Phases[1] = "session-open"
                      /\ Phases[Len(Phases)] = "session-closed"
                      /\ events[Len(events)].ev = "close"
               /\ Len(Phases) = 3 <=> fault.at \notin {"connect", "install", "load", "region"}
               /\ fault.at \in {"install", "load", "region", "execute"} =>
                      Statements[Len(Statements)] = CASE fault.at = "install" -> "INSTALL httpfs;"
                                                      [] fault.at = "load" -> "LOAD httpfs;"
                                                      [] fault.at = "region" -> region_stmt(fn, req)
                                                      [] fault.at = "execute" -> query

\* LOAD failed: the session was opened and closed, no query was submitted.
C8_Witness ==
    /\ Done /\ fn = TOP /\ fault = Failure("load", "error")
    /\ Phases = <<"session-open", "session-closed">>
    /\ Statements = <<"INSTALL httpfs;", "LOAD httpfs;">>

\* ---------------------------------------------------------------- C9
\* C9: output that cannot be parsed after exit status 0 makes clickhouse_query
\* raise to its caller with nothing printed; a failed conversion of the result
\* in an embedded-backend function is taken by the function's except clause
\* like an engine error: the diagnostic is printed, None is returned and the
\* session is closed.
C9_ParseFailure ==
    Done =>
        /\ (fn = CLICKHOUSE /\ proc.started /\ proc.returncode = 0
                /\ proc.stdout \in {"", RaggedCsv}) =>
               /\ ret = Raised
               /\ Prints = <<>>
        /\ (fn \in Embedded /\ fault = Failure("df", "error")) =>
               /\ ReturnedNone
               /\ \E i \in 1..Len(Prints) : DiagnosticAt(i)
               /\ conn = "closed" /\ nOpen = 0
               /\ Statements[Len(Statements)] = query

\* Exit status 0 with empty output: the call raised.
C9_Witness ==
    /\ Done /\ fn = CLICKHOUSE /\ proc.started /\ proc.returncode = 0
    /\ proc.stdout = "" /\ ret = Raised /\ fault.at = "read_csv"

\* ---------------------------------------------------------------- C10
\* C10: whatever value is supplied for a parameter, a query is built and the
\* value stands in it, unchanged, in the parameter's place.
C10_ForwardedVerbatim ==
    QueryBuilt =>
        /\ Contains(query, "/occurrence/" \o req.snapshot_date \o "/occurrence.parquet/*")
        /\ fn # READ => Contains(query, "s3://gbif-open-data-" \o req.region \o "/")
        /\ req.limit # None => Contains(query, "LIMIT " \o Format(req.limit))
        /\ req.country_code # None =>
               Contains(query, "countrycode = '" \o Format(req.country_code) \o "'")
        /\ req.species # None =>
               Contains(query, "species LIKE '%" \o Format(req.species) \o "%'")
====
